---- MODULE Spec2Model ----
(***************************************************************************)
(* The controlled workload runner of sample.py: the supervisor main(), the *)
(* compute and accelerator work units and the monitor, as communicating    *)
(* processes over one wall clock; and the register / login functions of    *)
(* login.py over the text of their file.                                   *)
(*                                                                         *)
(* Time is counted in ticks of 0.1 s (the spawn stagger of sample.py).     *)
(* Statements other than time.sleep and Process.join take no time in the   *)
(* supervisor and in the monitor; a sleep lasts exactly its argument.  A   *)
(* freshly started process begins its target at the instant of its start   *)
(* or at the next one; a work unit runs its iterations and meets the end   *)
(* of its loop at an arbitrary pace; a child that was sent SIGTERM dies    *)
(* after an arbitrary delay, or not at all.  At most one interrupt reaches *)
(* main, before or during its wait.  The clock moves from one instant at   *)
(* which a timer expires or a deadline falls to the next; the steps of the *)
(* processes are placed at these instants.                                 *)
(*                                                                         *)
(* Spec runs main over all small argument lists; LongRunSpec and           *)
(* GpuRunSpec follow one argument list each, further in time and in        *)
(* iterations; LoginSpec is login.py and LibrarySpec is the Library of     *)
(* ram.py over the text of its file.                                       *)
(***************************************************************************)
EXTENDS Integers, Sequences, FiniteSets, TLC

\* ---------------------------------------------------------------- bounds
MaxSeconds == 1        \* --duration ranges over 0..MaxSeconds seconds
MaxUnits == 2          \* work units in one run: --cpu-workers plus devices used
MaxDevices == 2        \* torch.cuda.device_count() ranges over 1..MaxDevices
MaxIter == 1           \* iterations one work unit is followed through
MaxGpuIter == 21       \* the same, in the runs of the accelerator loop alone

\* ------------------------------------------------- program constants (ticks)
StaggerTicks == 1      \* time.sleep(0.1) after each start
SleepCap == 10         \* min(1.0, remaining)
JoinTimeout == 20      \* p.join(timeout=2.0)
MonJoinTimeout == 10   \* monitor_proc.join(timeout=1.0)
SyncEvery == 10        \* iter_count % 10 == 0

Durations == {10 * d : d \in 0..MaxSeconds}
DefaultInterval == 20  \* DEFAULT_MONITOR_INTERVAL = 2.0
Intervals == {5, DefaultInterval}   \* --monitor-interval 0.5 s and 2.0 s

Min(a, b) == IF a < b THEN a ELSE b

\* ------------------------------------------------------------- processes
Main == <<"main", 0>>
Mon == <<"mon", 0>>
CpuId(k) == <<"cpu", k>>
GpuId(k) == <<"gpu", k>>
CpuIds == {CpuId(k) : k \in 0..(MaxUnits - 1)}
GpuIds == {GpuId(k) : k \in 0..(MaxDevices - 1)}
Workers == CpuIds \cup GpuIds
Children == Workers \cup {Mon}

VARIABLES
  cfg,         \* the parsed arguments, and what the machine's torch reports
  gpu,         \* args.gpu, cleared by the capability check
  now,         \* time.time(), in ticks
  pc,          \* the supervisor's position in main()
  stop_time,   \* main's stop_time
  wake,        \* end of the supervisor's current sleep or join
  idx,         \* the supervisor's loop index
  cuda_count,  \* main's cuda_count
  cpu_procs,   \* main's cpu_procs
  gpu_procs,   \* main's gpu_procs
  gpu_args,    \* per accelerator process: the device_index and worker_id given
  sup_log,     \* what main has printed: <<line, process it is about>>
  intr_at,     \* where a KeyboardInterrupt reached main, "none" if it did not
  term_sent,   \* per child: terminate() calls made on it
  join_calls,  \* per child: join() calls made on it
  joined,      \* handles whose join returned with the child exited
  abandoned,   \* handles whose join timed out
  st,          \* per child: the state of its process
  deadline,    \* per child: the stop_time it was given (monitor: its end_time)
  started_at,  \* per child: when start() was called on it
  mon_began,   \* when monitor_loop began to run
  iter,        \* per work unit: iter_count; monitor: lines printed
  synced,      \* per accelerator unit: the iteration counts it synchronized at
  report,      \* per work unit: the count of its 'finished' line, -1 if none
  exc,         \* per work unit: its 'Exception' line was printed
  faulted,     \* per work unit: where a fault was raised in it
  mon_wake,    \* end of the monitor's current sleep
  login_system, \* login.py: the text of login_system.txt
  reg_log,     \* login.py: the <<username, password>> of each successful register
  login_out,   \* login.py: the last message printed by login or register
  books,       \* ram.py: Library.books
  library_file, \* ram.py: the text of library.txt
  lib_out      \* ram.py: the last thing the Library did

supVars == <<gpu, pc, stop_time, wake, idx, cuda_count, cpu_procs, gpu_procs, gpu_args,
             sup_log, intr_at, term_sent, join_calls, joined, abandoned>>
childVars == <<st, deadline, started_at, mon_began, iter, synced, report, exc,
               faulted, mon_wake>>
loginVars == <<login_system, reg_log, login_out>>
libraryVars == <<books, library_file, lib_out>>
\* what no step of the runner changes
fixedVars == <<cfg, loginVars, libraryVars>>
runnerVars == <<cfg, now, supVars, childVars>>
vars == <<runnerVars, loginVars, libraryVars>>

Alive(c) == st[c] \in {"setup", "loop", "sleep", "terminating"}

\* ------------------------------------------------------------ pure pieces
\* a line printed by main; none of them is about a child
Line(text) == <<text, Main>>

\* faulty variants of LoopCond: the deadline itself still counts as before
\* it; only the deadline itself stops the loop
LoopCondInclusive(t, stop) == t <= stop
LoopCondNotEqual(t, stop) == t # stop

\* while time.time() < stop_time, in the work units
LoopCond(t, stop) == t < stop

\* while time.time() < end_time, in the monitor
MonLoopCond(t, end) == t < end

\* faulty variant of GpuAfterCheck: the device check is left out
GpuAfterCheckNoCuda(flag, torch, cuda) == flag /\ torch

\* args.gpu after the capability check of main
CapabilityOk(torch, cuda) == torch /\ cuda
GpuAfterCheck(flag, torch, cuda) == flag /\ CapabilityOk(torch, cuda)

\* stop_time = time.time() + args.duration
StopTime(t, d) == t + d

\* faulty variant of WorkerDeadline: the deadline is computed anew at each start
WorkerDeadlineRecomputed == StopTime(now, cfg.duration)

\* the stop_time argument a work unit is started with
WorkerDeadline == stop_time

\* faulty variant of MonitorEnd: the duration is not added
MonitorEndNow(t, d) == t

\* end_time = time.time() + duration, in the monitor's own process
MonitorEnd(t, d) == t + d

\* faulty variant of StaggerEnd: no delay between two starts
StaggerEndNone(t) == t

\* time.sleep(0.1) called at t returns at
StaggerEnd(t) == t + StaggerTicks

\* range(args.cpu_workers) and range(cuda_count)
CpuRange == 0..(cfg.cpu_workers - 1)
GpuRange == 0..(cuda_count - 1)

\* faulty variant of Remaining: the difference is taken the wrong way round
RemainingReversed == now - stop_time

\* remaining = stop_time - time.time()
Remaining == stop_time - now

\* faulty variant of WaitCond: the loop goes on until remaining is exactly 0
WaitCondNotZero(r) == r # 0

\* while remaining > 0
WaitCond(r) == r > 0

\* faulty variant of SleepFor: a whole second whatever remains
SleepForWhole(r) == SleepCap

\* time.sleep(min(1.0, remaining))
SleepFor(r) == Min(SleepCap, r)

\* faulty variant of NeedsTerminate: terminate() is called on every handle
NeedsTerminateAlways(p) == TRUE

\* if p.is_alive(), in the terminate loop
NeedsTerminate(p) == Alive(p)

\* faulty variant of GpuArgs: every worker is bound to the first device
GpuArgsFirstDevice(i) == [device_index |-> 0, worker_id |-> i]

\* args=(args.gpu_matrix_size, stop_time, idx, idx)
GpuArgs(i) == [device_index |-> i, worker_id |-> i]

\* a process that was not created has no arguments
NoArgs == [device_index |-> -1, worker_id |-> -1]

\* faulty variant of SyncDue: the barrier comes one iteration late
SyncDueLate(n) == n % SyncEvery = 1

\* faulty variant of JoinList: the compute handles are left out
JoinListGpuOnly == gpu_procs

\* cpu_procs + gpu_procs
JoinList == cpu_procs \o gpu_procs

\* faulty variant of JoinDeadline: twice the timeout
JoinDeadlineLong(t) == t + 2 * JoinTimeout

\* p.join(timeout=2.0) called at t returns at the latest at
JoinDeadline(t) == t + JoinTimeout

\* faulty variant of NextJoinIndex: a join that timed out is tried again
NextJoinIndexRetry(k, exited) == IF exited THEN k + 1 ELSE k

\* the for loop over cpu_procs + gpu_procs goes on to the next handle
\* whatever the join returned
NextJoinIndex(k, exited) == k + 1

\* if iter_count % 10 == 0
SyncDue(n) == n % SyncEvery = 0

\* ---------------------------------------------------------------- login.py
MaxNameLen == 2        \* characters of a username typed in
MaxPassLen == 1        \* characters of a password typed in
MaxRegs == 2           \* successful registrations followed

\* the characters typed in: a letter, the two separators of the file, a blank
Chars == {"a", "-", ":", " "}
Whitespace == {" "}
Strings(n) == UNION {[1..k -> Chars] : k \in 0..n}
Names == Strings(MaxNameLen)
Passwords == Strings(MaxPassLen)

\* str.strip(chars)
RECURSIVE LStrip(_, _)
LStrip(s, C) == IF s # <<>> /\ Head(s) \in C THEN LStrip(Tail(s), C) ELSE s

RECURSIVE RStrip(_, _)
RStrip(s, C) ==
  IF s # <<>> /\ s[Len(s)] \in C THEN RStrip(SubSeq(s, 1, Len(s) - 1), C) ELSE s

StripOf(s, C) == RStrip(LStrip(s, C), C)

\* str.split(sep): the pieces between the occurrences of sep
RECURSIVE Split(_, _)
Split(s, sep) ==
  IF \E i \in 1..Len(s) : s[i] = sep
    THEN LET i == CHOOSE i \in 1..Len(s) :
                    s[i] = sep /\ \A j \in 1..(i - 1) : s[j] # sep
         IN <<SubSeq(s, 1, i - 1)>> \o Split(SubSeq(s, i + 1, Len(s)), sep)
    ELSE <<s>>

\* ':' in user
HasColon(user) == \E i \in 1..Len(user) : user[i] = ":"

\* content = file.read().strip()
Content(text) == StripOf(text, Whitespace)

\* content.strip('-').split('-')
UserBlocks(content) == Split(StripOf(content, {"-"}), "-")

\* the for loop of login from block k on; username, password = user.split(':')
\* raises ValueError unless there are exactly two parts
RECURSIVE LoginScan(_, _, _, _)
LoginScan(users, k, u, p) ==
  IF k > Len(users) THEN "invalid"
  ELSE IF ~HasColon(users[k]) THEN LoginScan(users, k + 1, u, p)
  ELSE LET parts == Split(users[k], ":") IN
         IF Len(parts) # 2 THEN "error"
         ELSE IF parts[1] = u /\ parts[2] = p THEN "success"
         ELSE LoginScan(users, k + 1, u, p)

\* what login(u, p) prints, or "error" if it raises
LoginResult(text, u, p) ==
  IF Content(text) = <<>> THEN "no_users"
  ELSE LoginScan(UserBlocks(Content(text)), 1, u, p)

\* the for loop of register from block k on
RECURSIVE RegisterScan(_, _, _)
RegisterScan(users, k, u) ==
  IF k > Len(users) THEN "registered"
  ELSE IF ~HasColon(users[k]) THEN RegisterScan(users, k + 1, u)
  ELSE LET parts == Split(users[k], ":") IN
         IF Len(parts) # 2 THEN "error"
         ELSE IF parts[1] = u THEN "exists"
         ELSE RegisterScan(users, k + 1, u)

\* what register(u, p) prints, or "error" if it raises
RegisterResult(text, u) ==
  RegisterScan(IF Content(text) # <<>> THEN UserBlocks(Content(text)) ELSE <<>>,
               1, u)

\* file.write(f"{username_input}:{password_input}-")
Entry(u, p) == u \o <<":">> \o p \o <<"-">>

\* login_system.txt is empty and nothing was printed
LoginAtEntry ==
  /\ login_system = <<>>
  /\ reg_log = <<>>
  /\ login_out = "none"

\* register(u, p)
Register(u, p) ==
  /\ login_out # "error"
  /\ Len(reg_log) < MaxRegs
  /\ login_out' = RegisterResult(login_system, u)
  /\ IF RegisterResult(login_system, u) = "registered"
       THEN /\ login_system' = login_system \o Entry(u, p)
            /\ reg_log' = Append(reg_log, <<u, p>>)
       ELSE UNCHANGED <<login_system, reg_log>>
  /\ UNCHANGED <<runnerVars, libraryVars>>

\* login(u, p)
Login(u, p) ==
  /\ login_out # "error"
  /\ login_out' = LoginResult(login_system, u, p)
  /\ UNCHANGED <<login_system, reg_log, runnerVars, libraryVars>>

\* ------------------------------------------------------------------ ram.py
MaxFieldLen == 1       \* characters of a field typed in
MaxBooks == 2          \* books held by the Library at once

\* the characters typed in: a letter, the separator of the file, a blank
LibChars == {"a", ",", " "}
Fields == UNION {[1..k -> LibChars] : k \in 0..MaxFieldLen}

\* the words "book" and "ebook" that begin a line, each taken as one symbol,
\* and the end of a line
BookWord == <<"book">>
EBookWord == <<"ebook">>
Newline == "\n"

\* a Book has no file_size
NoSize == <<"none">>

\* Book(title, author, isbn) and EBook(title, author, isbn, file_size)
Book(t, a, i) ==
  [kind |-> "book", title |-> t, author |-> a, isbn |-> i, file_size |-> NoSize]
EBook(t, a, i, f) ==
  [kind |-> "ebook", title |-> t, author |-> a, isbn |-> i, file_size |-> f]

NewBooks ==
  {Book(t, a, i) : t \in Fields, a \in Fields, i \in Fields}
    \cup {EBook(b.title, b.author, b.isbn, f) :
            b \in {Book(t, a, i) : t \in Fields, a \in Fields, i \in Fields},
            f \in Fields}

Comma == <<",">>

\* Book.to_file_string and EBook.to_file_string
ToFileString(b) ==
  IF b.kind = "ebook"
    THEN EBookWord \o Comma \o b.title \o Comma \o b.author \o Comma \o b.isbn
           \o Comma \o b.file_size \o <<Newline>>
    ELSE BookWord \o Comma \o b.title \o Comma \o b.author \o Comma \o b.isbn
           \o <<Newline>>

\* save_books: the file is rewritten with one line per book, in order
RECURSIVE SaveBooks(_)
SaveBooks(bs) ==
  IF bs = <<>> THEN <<>> ELSE ToFileString(Head(bs)) \o SaveBooks(Tail(bs))

\* for line in file: the pieces ended by a newline
FileLines(text) ==
  LET pieces == Split(text, Newline) IN
    IF pieces[Len(pieces)] = <<>> THEN SubSeq(pieces, 1, Len(pieces) - 1)
    ELSE pieces

\* data = line.strip().split(","), and the book made of it; a line that
\* begins with neither word is passed over
LoadLine(line) ==
  LET data == Split(StripOf(line, {" ", Newline}), ",") IN
    IF data[1] = BookWord
      THEN IF Len(data) < 4 THEN <<"IndexError">>
           ELSE <<Book(data[2], data[3], data[4])>>
    ELSE IF data[1] = EBookWord
      THEN IF Len(data) < 5 THEN <<"IndexError">>
           ELSE <<EBook(data[2], data[3], data[4], data[5])>>
    ELSE <<>>

\* load_books
RECURSIVE LoadLines(_)
LoadLines(ls) ==
  IF ls = <<>> THEN <<>> ELSE LoadLine(Head(ls)) \o LoadLines(Tail(ls))

LoadBooks(text) == LoadLines(FileLines(text))

\* the place of the first book with that ISBN, 0 if there is none
FirstWithIsbn(bs, isbn) ==
  IF \E k \in 1..Len(bs) : bs[k].isbn = isbn
    THEN CHOOSE k \in 1..Len(bs) :
           bs[k].isbn = isbn /\ \A j \in 1..(k - 1) : bs[j].isbn # isbn
    ELSE 0

\* self.books.remove(book), for the book at place k
RemoveAt(bs, k) == SubSeq(bs, 1, k - 1) \o SubSeq(bs, k + 1, Len(bs))

\* library.txt does not exist and no Library was made yet
LibraryAtEntry ==
  /\ books = <<>>
  /\ library_file = <<>>
  /\ lib_out = "none"

\* lib = Library(): the program is started anew and loads the file
NewLibrary ==
  /\ books' = LoadBooks(library_file)
  /\ lib_out' = "loaded"
  /\ UNCHANGED <<library_file, runnerVars, loginVars>>

\* add_book(book)
AddBook(b) ==
  /\ Len(books) < MaxBooks
  /\ books' = Append(books, b)
  /\ library_file' = SaveBooks(Append(books, b))
  /\ lib_out' = "added"
  /\ UNCHANGED <<runnerVars, loginVars>>

\* remove_book(isbn)
RemoveBook(isbn) ==
  /\ LET k == FirstWithIsbn(books, isbn) IN
       IF k # 0
         THEN /\ books' = RemoveAt(books, k)
              /\ library_file' = SaveBooks(RemoveAt(books, k))
              /\ lib_out' = "removed"
         ELSE /\ lib_out' = "not_found"
              /\ UNCHANGED <<books, library_file>>
  /\ UNCHANGED <<runnerVars, loginVars>>

\* main is entered: nothing has been started, printed or computed yet
AtEntry ==
  /\ gpu = cfg.gpu_flag
  /\ now = 0
  /\ pc = "check_gpu"
  /\ stop_time = 0
  /\ wake = 0
  /\ idx = 0
  /\ cuda_count = 0
  /\ cpu_procs = <<>>
  /\ gpu_procs = <<>>
  /\ gpu_args = [g \in GpuIds |-> NoArgs]
  /\ sup_log = <<>>
  /\ intr_at = "none"
  /\ term_sent = [c \in Children |-> 0]
  /\ join_calls = [c \in Children |-> 0]
  /\ joined = {}
  /\ abandoned = {}
  /\ st = [c \in Children |-> "none"]
  /\ deadline = [c \in Children |-> 0]
  /\ started_at = [c \in Children |-> 0]
  /\ mon_began = 0
  /\ iter = [c \in Children |-> 0]
  /\ synced = [c \in Children |-> {}]
  /\ report = [c \in Children |-> -1]
  /\ exc = [c \in Children |-> FALSE]
  /\ faulted = [c \in Children |-> "none"]
  /\ mon_wake = 0

Init ==
  /\ cfg \in [duration : Durations,
              cpu_workers : 0..MaxUnits,
              gpu_flag : BOOLEAN,
              has_torch : BOOLEAN,
              cuda_avail : BOOLEAN,
              cuda_count : 1..MaxDevices,
              interval : Intervals]
  /\ cfg.cuda_avail => cfg.has_torch
  /\ cfg.cpu_workers
       + (IF cfg.gpu_flag /\ cfg.cuda_avail THEN cfg.cuda_count ELSE 0) <= MaxUnits
  \* device_count() is read only after a capability check that passed
  /\ (cfg.gpu_flag /\ cfg.cuda_avail) \/ cfg.cuda_count = 1
  /\ AtEntry
  /\ LoginAtEntry /\ LibraryAtEntry

\* ------------------------------------------------------------ supervisor
\* if args.gpu: ... the capability check
SupCheckGpu ==
  /\ pc = "check_gpu"
  /\ gpu' = GpuAfterCheck(gpu, cfg.has_torch, cfg.cuda_avail)
  /\ sup_log' = <<Line("banner")>> \o
                  (IF ~gpu THEN <<>>
                   ELSE IF ~cfg.has_torch THEN <<Line("no_torch")>>
                   ELSE IF ~cfg.cuda_avail THEN <<Line("no_cuda")>>
                   ELSE <<Line("gpu_info")>>)
  /\ pc' = "compute_stop"
  /\ UNCHANGED <<cuda_count, fixedVars, now, stop_time, wake, idx, cpu_procs,
                 gpu_procs, intr_at, term_sent, join_calls, joined, abandoned,
                 childVars, gpu_args>>

SupComputeStop ==
  /\ pc = "compute_stop"
  /\ stop_time' = StopTime(now, cfg.duration)
  /\ pc' = "start_monitor"
  /\ UNCHANGED <<cuda_count, fixedVars, now, gpu, wake, idx, cpu_procs, gpu_procs,
                 sup_log, intr_at, term_sent, join_calls, joined, abandoned,
                 childVars, gpu_args>>

\* monitor_proc = mp.Process(target=monitor_loop, ...); monitor_proc.start()
SupStartMonitor ==
  /\ pc = "start_monitor"
  /\ st' = [st EXCEPT ![Mon] = "setup"]
  /\ started_at' = [started_at EXCEPT ![Mon] = now]
  /\ pc' = "spawn_cpu"
  /\ idx' = 0
  /\ UNCHANGED <<cuda_count, fixedVars, now, gpu, stop_time, wake, cpu_procs,
                 gpu_procs, sup_log, intr_at, term_sent, join_calls, joined,
                 abandoned, deadline, mon_began, iter, synced, report, exc,
                 faulted, mon_wake, gpu_args>>

\* one turn of: for i in range(args.cpu_workers): start, append, sleep(0.1)
SupSpawnCpu ==
  /\ pc = "spawn_cpu"
  /\ idx \in CpuRange
  /\ st' = [st EXCEPT ![CpuId(idx)] = "setup"]
  /\ deadline' = [deadline EXCEPT ![CpuId(idx)] = WorkerDeadline]
  /\ started_at' = [started_at EXCEPT ![CpuId(idx)] = now]
  /\ cpu_procs' = Append(cpu_procs, CpuId(idx))
  /\ wake' = StaggerEnd(now)
  /\ pc' = "stagger_cpu"
  /\ UNCHANGED <<cuda_count, fixedVars, now, gpu, stop_time, idx, gpu_procs, sup_log,
                 intr_at, term_sent, join_calls, joined, abandoned, mon_began,
                 iter, synced, report, exc, faulted, mon_wake, gpu_args>>

SupStaggerCpuDone ==
  /\ pc = "stagger_cpu"
  /\ now >= wake
  /\ idx' = idx + 1
  /\ pc' = "spawn_cpu"
  /\ UNCHANGED <<cuda_count, fixedVars, now, gpu, stop_time, wake, cpu_procs,
                 gpu_procs, sup_log, intr_at, term_sent, join_calls, joined,
                 abandoned, childVars, gpu_args>>

\* the cpu loop is over: gpu_procs = []; if args.gpu: cuda_count = device_count()
SupCpuSpawned ==
  /\ pc = "spawn_cpu"
  /\ idx \notin CpuRange
  /\ idx' = 0
  /\ IF gpu
       THEN /\ cuda_count' = cfg.cuda_count
            /\ pc' = "spawn_gpu"
       ELSE /\ cuda_count' = cuda_count
            /\ pc' = "wait"
  /\ UNCHANGED <<fixedVars, now, gpu, stop_time, wake, cpu_procs, gpu_procs, sup_log,
                 intr_at, term_sent, join_calls, joined, abandoned, childVars,
                 gpu_args>>

\* one turn of: for idx in range(cuda_count): start, append, sleep(0.1)
SupSpawnGpu ==
  /\ pc = "spawn_gpu"
  /\ idx \in GpuRange
  /\ st' = [st EXCEPT ![GpuId(idx)] = "setup"]
  /\ deadline' = [deadline EXCEPT ![GpuId(idx)] = WorkerDeadline]
  /\ started_at' = [started_at EXCEPT ![GpuId(idx)] = now]
  /\ gpu_args' = [gpu_args EXCEPT ![GpuId(idx)] = GpuArgs(idx)]
  /\ gpu_procs' = Append(gpu_procs, GpuId(idx))
  /\ wake' = StaggerEnd(now)
  /\ pc' = "stagger_gpu"
  /\ UNCHANGED <<cuda_count, fixedVars, now, gpu, stop_time, idx, cpu_procs, sup_log, intr_at,
                 term_sent, join_calls, joined, abandoned, mon_began, iter,
                 synced, report, exc, faulted, mon_wake>>

SupStaggerGpuDone ==
  /\ pc = "stagger_gpu"
  /\ now >= wake
  /\ idx' = idx + 1
  /\ pc' = "spawn_gpu"
  /\ UNCHANGED <<cuda_count, fixedVars, now, gpu, stop_time, wake, cpu_procs,
                 gpu_procs, sup_log, intr_at, term_sent, join_calls, joined,
                 abandoned, childVars, gpu_args>>

SupGpuSpawned ==
  /\ pc = "spawn_gpu"
  /\ idx \notin GpuRange
  /\ idx' = 0
  /\ pc' = "wait"
  /\ UNCHANGED <<cuda_count, fixedVars, now, gpu, stop_time, wake, cpu_procs,
                 gpu_procs, sup_log, intr_at, term_sent, join_calls, joined,
                 abandoned, childVars, gpu_args>>

\* remaining = stop_time - time.time(); while remaining > 0: sleep(min(1.0, remaining))
SupWaitSleep ==
  /\ pc = "wait"
  /\ WaitCond(Remaining)
  /\ wake' = now + SleepFor(Remaining)
  /\ pc' = "sleep"
  /\ UNCHANGED <<cuda_count, fixedVars, now, gpu, stop_time, idx, cpu_procs,
                 gpu_procs, sup_log, intr_at, term_sent, join_calls, joined,
                 abandoned, childVars, gpu_args>>

SupWaitWake ==
  /\ pc = "sleep"
  /\ now >= wake
  /\ pc' = "wait"
  /\ UNCHANGED <<cuda_count, fixedVars, now, gpu, stop_time, wake, idx, cpu_procs,
                 gpu_procs, sup_log, intr_at, term_sent, join_calls, joined,
                 abandoned, childVars, gpu_args>>

\* the while loop ends: into finally
SupWaitOver ==
  /\ pc = "wait"
  /\ ~WaitCond(Remaining)
  /\ pc' = "terminate"
  /\ idx' = 1
  /\ UNCHANGED <<cuda_count, fixedVars, now, gpu, stop_time, wake, cpu_procs,
                 gpu_procs, sup_log, intr_at, term_sent, join_calls, joined,
                 abandoned, childVars, gpu_args>>

\* one turn of: for p in cpu_procs + gpu_procs: if p.is_alive(): p.terminate()
SupTerminate ==
  /\ pc = "terminate"
  /\ idx \in 1..Len(JoinList)
  /\ LET p == JoinList[idx] IN
       IF NeedsTerminate(p)
         THEN /\ term_sent' = [term_sent EXCEPT ![p] = @ + 1]
              /\ st' = [st EXCEPT ![p] = "terminating"]
         ELSE UNCHANGED <<term_sent, st>>
  /\ idx' = idx + 1
  /\ UNCHANGED <<cuda_count, fixedVars, now, gpu, pc, stop_time, wake, cpu_procs,
                 gpu_procs, sup_log, intr_at, join_calls, joined, abandoned,
                 deadline, started_at, mon_began, iter, synced, report, exc,
                 faulted, mon_wake, gpu_args>>

SupTerminateOver ==
  /\ pc = "terminate"
  /\ idx \notin 1..Len(JoinList)
  /\ idx' = 1
  /\ pc' = "join"
  /\ UNCHANGED <<cuda_count, fixedVars, now, gpu, stop_time, wake, cpu_procs,
                 gpu_procs, sup_log, intr_at, term_sent, join_calls, joined,
                 abandoned, childVars, gpu_args>>

\* one turn of: for p in cpu_procs + gpu_procs: p.join(timeout=2.0), the call
SupJoinCall ==
  /\ pc = "join"
  /\ idx \in 1..Len(JoinList)
  /\ join_calls' = [join_calls EXCEPT ![JoinList[idx]] = @ + 1]
  /\ wake' = JoinDeadline(now)
  /\ pc' = "join_wait"
  /\ UNCHANGED <<cuda_count, fixedVars, now, gpu, stop_time, idx, cpu_procs,
                 gpu_procs, sup_log, intr_at, term_sent, joined, abandoned,
                 childVars, gpu_args>>

\* ... and its return: the child has exited, or the timeout has passed
SupJoinReturn ==
  /\ pc = "join_wait"
  /\ LET p == JoinList[idx] IN
       /\ ~Alive(p) \/ now >= wake
       /\ joined' = IF Alive(p) THEN joined ELSE joined \cup {p}
       /\ abandoned' = IF Alive(p) THEN abandoned \cup {p} ELSE abandoned
       /\ idx' = NextJoinIndex(idx, ~Alive(p))
  /\ pc' = "join"
  /\ UNCHANGED <<cuda_count, fixedVars, now, gpu, stop_time, wake, cpu_procs,
                 gpu_procs, sup_log, intr_at, term_sent, join_calls, childVars,
                 gpu_args>>

\* if monitor_proc.is_alive(): terminate, join(timeout=1.0)
SupMonitorTerminate ==
  /\ pc = "join"
  /\ idx \notin 1..Len(JoinList)
  /\ IF Alive(Mon)
       THEN /\ term_sent' = [term_sent EXCEPT ![Mon] = @ + 1]
            /\ join_calls' = [join_calls EXCEPT ![Mon] = @ + 1]
            /\ st' = [st EXCEPT ![Mon] = "terminating"]
            /\ wake' = now + MonJoinTimeout
            /\ pc' = "mon_join_wait"
       ELSE /\ pc' = "final"
            /\ UNCHANGED <<term_sent, join_calls, st, wake>>
  /\ UNCHANGED <<cuda_count, fixedVars, now, gpu, stop_time, idx, cpu_procs,
                 gpu_procs, sup_log, intr_at, joined, abandoned, deadline,
                 started_at, mon_began, iter, synced, report, exc, faulted,
                 mon_wake, gpu_args>>

SupMonitorJoinReturn ==
  /\ pc = "mon_join_wait"
  /\ ~Alive(Mon) \/ now >= wake
  /\ joined' = IF Alive(Mon) THEN joined ELSE joined \cup {Mon}
  /\ abandoned' = IF Alive(Mon) THEN abandoned \cup {Mon} ELSE abandoned
  /\ pc' = "final"
  /\ UNCHANGED <<cuda_count, fixedVars, now, gpu, stop_time, wake, idx, cpu_procs,
                 gpu_procs, sup_log, intr_at, term_sent, join_calls, childVars,
                 gpu_args>>

\* print("All workers stopped. ..."); print("Done.")
SupFinal ==
  /\ pc = "final"
  /\ sup_log' = sup_log \o <<Line("stopped"), Line("done")>>
  /\ pc' = "done"
  /\ UNCHANGED <<cuda_count, fixedVars, now, gpu, stop_time, wake, idx, cpu_procs,
                 gpu_procs, intr_at, term_sent, join_calls, joined, abandoned,
                 childVars, gpu_args>>

SpawningPcs == {"check_gpu", "compute_stop", "start_monitor", "spawn_cpu",
                "stagger_cpu", "spawn_gpu", "stagger_gpu"}
RunningPcs == {"wait", "sleep"}
DrainingPcs == {"terminate", "join", "join_wait", "mon_join_wait", "final"}

\* faulty variant of InterruptRunning: the interrupt is not caught
InterruptRunningUncaught ==
  /\ intr_at = "none"
  /\ pc \in RunningPcs
  /\ intr_at' = "running"
  /\ pc' = "aborted"
  /\ UNCHANGED <<cuda_count, fixedVars, now, gpu, stop_time, wake, idx, cpu_procs,
                 gpu_procs, sup_log, term_sent, join_calls, joined, abandoned,
                 childVars, gpu_args>>

\* KeyboardInterrupt inside the try: the except clause prints, finally follows
InterruptRunning ==
  /\ intr_at = "none"
  /\ pc \in RunningPcs
  /\ intr_at' = "running"
  /\ sup_log' = Append(sup_log, Line("interrupt"))
  /\ pc' = "terminate"
  /\ idx' = 1
  /\ UNCHANGED <<cuda_count, fixedVars, now, gpu, stop_time, wake, cpu_procs,
                 gpu_procs, term_sent, join_calls, joined, abandoned,
                 childVars, gpu_args>>

\* KeyboardInterrupt before the try: nothing in main catches it
InterruptSpawning ==
  /\ intr_at = "none"
  /\ pc \in SpawningPcs
  /\ intr_at' = "spawning"
  /\ pc' = "aborted"
  /\ UNCHANGED <<cuda_count, fixedVars, now, gpu, stop_time, wake, idx, cpu_procs,
                 gpu_procs, sup_log, term_sent, join_calls, joined, abandoned,
                 childVars, gpu_args>>

\* -------------------------------------------------------------- work units
\* cpu_worker_loop up to iter_count = 0: the buffers and the warm-up multiply
CpuSetup(w) ==
  /\ st[w] = "setup"
  /\ st' = [st EXCEPT ![w] = "loop"]
  /\ UNCHANGED <<fixedVars, now, supVars, deadline, started_at, mon_began, iter, synced, report,
                 exc, faulted, mon_wake>>

\* a fault there is raised before the try statement: the process dies of it
CpuSetupFault(w) ==
  /\ st[w] = "setup"
  /\ st' = [st EXCEPT ![w] = "crashed"]
  /\ faulted' = [faulted EXCEPT ![w] = "setup"]
  /\ UNCHANGED <<fixedVars, now, supVars, deadline, started_at, mon_began, iter,
                 synced, report, exc, mon_wake>>

\* one turn of the while loop
CpuIterate(w) ==
  /\ st[w] = "loop"
  /\ LoopCond(now, deadline[w])
  /\ iter[w] < MaxIter
  /\ iter' = [iter EXCEPT ![w] = @ + 1]
  /\ UNCHANGED <<fixedVars, now, supVars, st, deadline, started_at, mon_began, synced,
                 report, exc, faulted, mon_wake>>

\* a fault in the loop body: except prints it, finally prints the count
CpuLoopFault(w) ==
  /\ st[w] = "loop"
  /\ LoopCond(now, deadline[w])
  /\ faulted' = [faulted EXCEPT ![w] = "loop"]
  /\ exc' = [exc EXCEPT ![w] = TRUE]
  /\ report' = [report EXCEPT ![w] = iter[w]]
  /\ st' = [st EXCEPT ![w] = "finished"]
  /\ UNCHANGED <<fixedVars, now, supVars, deadline, started_at, mon_began, iter,
                 synced, mon_wake>>

\* the loop condition is false: finally prints the count
CpuFinish(w) ==
  /\ st[w] = "loop"
  /\ ~LoopCond(now, deadline[w])
  /\ report' = [report EXCEPT ![w] = iter[w]]
  /\ st' = [st EXCEPT ![w] = "finished"]
  /\ UNCHANGED <<fixedVars, now, supVars, deadline, started_at, mon_began, iter,
                 synced, exc, faulted, mon_wake>>

\* gpu_worker_loop up to iter_count = 0
GpuSetup(w) ==
  /\ st[w] = "setup"
  /\ st' = [st EXCEPT ![w] = IF cfg.has_torch THEN "loop" ELSE "skipped"]
  /\ UNCHANGED <<fixedVars, now, supVars, deadline, started_at, mon_began, iter, synced, report,
                 exc, faulted, mon_wake>>

\* a fault there is inside the try: iter_count is not yet a local, 0 is printed
GpuSetupFault(w) ==
  /\ st[w] = "setup"
  /\ cfg.has_torch
  /\ faulted' = [faulted EXCEPT ![w] = "setup"]
  /\ exc' = [exc EXCEPT ![w] = TRUE]
  /\ report' = [report EXCEPT ![w] = 0]
  /\ st' = [st EXCEPT ![w] = "finished"]
  /\ UNCHANGED <<fixedVars, now, supVars, deadline, started_at, mon_began, iter,
                 synced, mon_wake>>

\* one turn of the while loop, for a unit followed through at most cap turns
GpuTurn(w, cap) ==
  /\ st[w] = "loop"
  /\ LoopCond(now, deadline[w])
  /\ iter[w] < cap
  /\ iter' = [iter EXCEPT ![w] = @ + 1]
  /\ synced' = [synced EXCEPT ![w] =
                  IF SyncDue(iter[w] + 1) THEN @ \cup {iter[w] + 1} ELSE @]
  /\ UNCHANGED <<fixedVars, now, supVars, st, deadline, started_at, mon_began, report,
                 exc, faulted, mon_wake>>

GpuIterate(w) == GpuTurn(w, MaxIter)

\* the same turn in the runs that follow the accelerator loop further
GpuIterateOn(w) == GpuTurn(w, MaxGpuIter)

GpuLoopFault(w) ==
  /\ st[w] = "loop"
  /\ LoopCond(now, deadline[w])
  /\ faulted' = [faulted EXCEPT ![w] = "loop"]
  /\ exc' = [exc EXCEPT ![w] = TRUE]
  /\ report' = [report EXCEPT ![w] = iter[w]]
  /\ st' = [st EXCEPT ![w] = "finished"]
  /\ UNCHANGED <<fixedVars, now, supVars, deadline, started_at, mon_began, iter,
                 synced, mon_wake>>

GpuFinish(w) ==
  /\ st[w] = "loop"
  /\ ~LoopCond(now, deadline[w])
  /\ report' = [report EXCEPT ![w] = iter[w]]
  /\ st' = [st EXCEPT ![w] = "finished"]
  /\ UNCHANGED <<fixedVars, now, supVars, deadline, started_at, mon_began, iter,
                 synced, exc, faulted, mon_wake>>

\* SIGTERM takes effect: the child is gone
Die(c) ==
  /\ st[c] = "terminating"
  /\ st' = [st EXCEPT ![c] = "killed"]
  /\ UNCHANGED <<fixedVars, now, supVars, deadline, started_at, mon_began, iter,
                 synced, report, exc, faulted, mon_wake>>

\* ---------------------------------------------------------------- monitor
\* end_time = time.time() + duration
MonBegin ==
  /\ st[Mon] = "setup"
  /\ deadline' = [deadline EXCEPT ![Mon] = MonitorEnd(now, cfg.duration)]
  /\ mon_began' = now
  /\ st' = [st EXCEPT ![Mon] = "loop"]
  /\ UNCHANGED <<fixedVars, now, supVars, started_at, iter, synced, report, exc,
                 faulted, mon_wake>>

\* one turn of the while loop: print(line); time.sleep(interval)
MonSample ==
  /\ st[Mon] = "loop"
  /\ MonLoopCond(now, deadline[Mon])
  /\ iter' = [iter EXCEPT ![Mon] = @ + 1]
  /\ mon_wake' = now + cfg.interval
  /\ st' = [st EXCEPT ![Mon] = "sleep"]
  /\ UNCHANGED <<fixedVars, now, supVars, deadline, started_at, mon_began, synced,
                 report, exc, faulted>>

MonWake ==
  /\ st[Mon] = "sleep"
  /\ now >= mon_wake
  /\ st' = [st EXCEPT ![Mon] = "loop"]
  /\ UNCHANGED <<fixedVars, now, supVars, deadline, started_at, mon_began, iter,
                 synced, report, exc, faulted, mon_wake>>

MonExit ==
  /\ st[Mon] = "loop"
  /\ ~MonLoopCond(now, deadline[Mon])
  /\ st' = [st EXCEPT ![Mon] = "exited"]
  /\ UNCHANGED <<fixedVars, now, supVars, deadline, started_at, mon_began, iter,
                 synced, report, exc, faulted, mon_wake>>

\* ------------------------------------------------------------------ clock
\* the supervisor is inside a sleep or a join that has not returned, or gone
SupWaiting ==
  \/ pc \in {"stagger_cpu", "stagger_gpu", "sleep"} /\ now < wake
  \/ pc = "join_wait" /\ now < wake /\ Alive(JoinList[idx])
  \/ pc = "mon_join_wait" /\ now < wake /\ Alive(Mon)
  \/ pc \in {"done", "aborted"}

MonWaiting ==
  /\ st[Mon] # "loop"
  /\ st[Mon] = "sleep" => now < mon_wake

\* the instants ahead at which a timer expires or a work unit's deadline falls
Instants ==
  {t \in ((IF pc \in {"stagger_cpu", "stagger_gpu", "sleep", "join_wait",
                       "mon_join_wait"} THEN {wake} ELSE {})
          \cup (IF st[Mon] = "sleep" THEN {mon_wake} ELSE {})
          \cup {deadline[w] : w \in {v \in Workers : st[v] \in {"setup", "loop"}}})
     : t > now}

Earliest(S) == CHOOSE t \in S : \A u \in S : t <= u

\* no process started at an earlier instant is still to begin its target
AllBegun == \A c \in Children : st[c] = "setup" => started_at[c] = now

Tick ==
  /\ SupWaiting
  /\ MonWaiting
  /\ AllBegun
  /\ Instants # {}
  /\ now' = Earliest(Instants)
  /\ UNCHANGED <<fixedVars, supVars, childVars>>

\* ---------------------------------------------------------- specifications
SupSpawnStep ==
  \/ SupCheckGpu \/ SupComputeStop \/ SupStartMonitor
  \/ SupSpawnCpu \/ SupStaggerCpuDone \/ SupCpuSpawned
  \/ SupSpawnGpu \/ SupStaggerGpuDone \/ SupGpuSpawned

SupWaitStep == SupWaitSleep \/ SupWaitWake \/ SupWaitOver

SupTerminateStep == SupTerminate \/ SupTerminateOver

SupJoinStep ==
  \/ SupJoinCall \/ SupJoinReturn
  \/ SupMonitorTerminate \/ SupMonitorJoinReturn \/ SupFinal

SupStep == SupSpawnStep \/ SupWaitStep \/ SupTerminateStep \/ SupJoinStep

Interrupt == InterruptSpawning \/ InterruptRunning

CpuStep(w) == CpuSetup(w) \/ CpuIterate(w) \/ CpuFinish(w)
GpuStep(w) == GpuSetup(w) \/ GpuIterate(w) \/ GpuFinish(w)
MonStep == MonBegin \/ MonSample \/ MonWake \/ MonExit

Next ==
  \/ SupStep
  \/ Interrupt
  \/ \E w \in CpuIds : CpuStep(w) \/ CpuSetupFault(w) \/ CpuLoopFault(w)
  \/ \E w \in GpuIds : GpuStep(w) \/ GpuSetupFault(w) \/ GpuLoopFault(w)
  \/ \E c \in Children : Die(c)
  \/ MonStep
  \/ Tick

Spec == Init /\ [][Next]_vars

\* every process is scheduled and the clock runs
Fairness ==
  /\ WF_vars(SupStep)
  /\ WF_vars(MonStep)
  /\ WF_vars(Tick)
  /\ \A w \in CpuIds : WF_vars(CpuStep(w))
  /\ \A w \in GpuIds : WF_vars(GpuStep(w))

FairSpec == Spec /\ Fairness

\* main with the terminate loop over the work units taken out
SupTerminateRemoved ==
  /\ pc = "terminate"
  /\ idx' = 1
  /\ pc' = "join"
  /\ UNCHANGED <<cuda_count, fixedVars, now, gpu, stop_time, wake, cpu_procs,
                 gpu_procs, sup_log, intr_at, term_sent, join_calls, joined,
                 abandoned, childVars, gpu_args>>

NextNoTerm ==
  \/ SupSpawnStep \/ SupWaitStep \/ SupTerminateRemoved \/ SupJoinStep
  \/ Interrupt
  \/ \E w \in CpuIds : CpuStep(w) \/ CpuSetupFault(w) \/ CpuLoopFault(w)
  \/ \E w \in GpuIds : GpuStep(w) \/ GpuSetupFault(w) \/ GpuLoopFault(w)
  \/ \E c \in Children : Die(c)
  \/ MonStep
  \/ Tick

NoTermSpec ==
  /\ Init /\ [][NextNoTerm]_vars
  /\ WF_vars(SupSpawnStep \/ SupWaitStep \/ SupTerminateRemoved \/ SupJoinStep)
  /\ WF_vars(MonStep)
  /\ WF_vars(Tick)
  /\ \A w \in CpuIds : WF_vars(CpuStep(w))
  /\ \A w \in GpuIds : WF_vars(GpuStep(w))

\* the run --duration 5 --cpu-workers 1 --monitor-interval 2 without --gpu, on
\* a machine without PyTorch
LongRun == [duration |-> 50, cpu_workers |-> 1, gpu_flag |-> FALSE,
            has_torch |-> FALSE, cuda_avail |-> FALSE, cuda_count |-> 1,
            interval |-> DefaultInterval]

LongRunInit == cfg = LongRun /\ AtEntry /\ LoginAtEntry /\ LibraryAtEntry

\* main's spawning when no accelerator worker is started
SupSpawnCpuStep ==
  \/ SupCheckGpu \/ SupComputeStop \/ SupStartMonitor
  \/ SupSpawnCpu \/ SupStaggerCpuDone \/ SupCpuSpawned

NextCpuOnly ==
  \/ SupSpawnCpuStep \/ SupWaitStep \/ SupTerminateStep \/ SupJoinStep
  \/ Interrupt
  \/ \E w \in CpuIds : CpuStep(w) \/ CpuSetupFault(w) \/ CpuLoopFault(w)
  \/ \E c \in Children : Die(c)
  \/ MonStep
  \/ Tick

LongRunSpec == LongRunInit /\ [][NextCpuOnly]_vars

\* the run --duration 1 --cpu-workers 0 --gpu on a machine with one CUDA device
GpuRun == [duration |-> 10, cpu_workers |-> 0, gpu_flag |-> TRUE,
           has_torch |-> TRUE, cuda_avail |-> TRUE, cuda_count |-> 1,
           interval |-> DefaultInterval]

GpuRunInit == cfg = GpuRun /\ AtEntry /\ LoginAtEntry /\ LibraryAtEntry

\* main's spawning when no compute worker is started
SupSpawnGpuStep ==
  \/ SupCheckGpu \/ SupComputeStop \/ SupStartMonitor \/ SupCpuSpawned
  \/ SupSpawnGpu \/ SupStaggerGpuDone \/ SupGpuSpawned

NextGpuOnly ==
  \/ SupSpawnGpuStep \/ SupWaitStep \/ SupTerminateStep \/ SupJoinStep
  \/ Interrupt
  \/ \E w \in GpuIds : \/ GpuSetup(w) \/ GpuIterateOn(w) \/ GpuFinish(w)
                        \/ GpuSetupFault(w) \/ GpuLoopFault(w)
  \/ \E c \in Children : Die(c)
  \/ MonStep
  \/ Tick

GpuRunSpec == GpuRunInit /\ [][NextGpuOnly]_vars

\* login.py: any sequence of register and login calls on an empty file, the
\* runner not being run
LoginNext ==
  \/ \E u \in Names, p \in Passwords : Register(u, p)
  \/ \E u \in Names, p \in Passwords : Login(u, p)

LoginSpec == LongRunInit /\ [][LoginNext]_vars

\* ram.py: any sequence of starts, add_book and remove_book on an absent
\* file, the runner not being run
LibraryNext ==
  \/ NewLibrary
  \/ \E b \in NewBooks : AddBook(b)
  \/ \E isbn \in Fields : RemoveBook(isbn)

LibrarySpec == LongRunInit /\ [][LibraryNext]_vars

TypeOK ==
  /\ now \in Nat
  /\ pc \in SpawningPcs \cup RunningPcs \cup DrainingPcs \cup {"done", "aborted"}
  /\ \A c \in Children : st[c] \in {"none", "setup", "loop", "sleep", "finished",
         "crashed", "skipped", "exited", "terminating", "killed"}

\* ----------------------------------------------------------------- claims
\* the instant at which main computed stop_time
T0 == stop_time - cfg.duration

\* the work units main has started
Started == Len(cpu_procs) + Len(gpu_procs)

\* no interrupt, no fault in a work unit, every child gone when its join returned
FaultFree ==
  /\ intr_at = "none"
  /\ abandoned = {}
  /\ \A w \in Workers : faulted[w] = "none"

\* C1: in a fault-free run main reaches its final prints, and it reaches them
\* no later than duration + 0.1 s per work unit started + 2 s per work unit
\* joined + 1 s for the monitor after stop_time was computed.
C1_TerminatesInTime ==
  /\ [](pc = "final" /\ FaultFree =>
         now - T0 <= cfg.duration + StaggerTicks * Started
                       + JoinTimeout * Started + MonJoinTimeout)
  /\ <>(pc = "done" \/ ~FaultFree)

\* a fault-free run of a compute worker and an accelerator worker in which
\* every join of a work unit lasted its whole timeout
C1_Witness ==
  /\ pc = "done"
  /\ FaultFree
  /\ Len(cpu_procs) = 1 /\ Len(gpu_procs) = 1
  /\ now - T0 >= cfg.duration + JoinTimeout * Started

\* C2: when main has finished, exactly cpu_workers compute handles were
\* created, each was joined once, and each is either joined (its child had
\* exited) or abandoned (its join timed out), never both.
C2_HandlesConserved ==
  pc = "done" =>
    /\ Len(cpu_procs) = cfg.cpu_workers
    /\ \A k \in 1..Len(cpu_procs) : cpu_procs[k] = CpuId(k - 1)
    /\ joined \cap abandoned = {}
    /\ (joined \cup abandoned) \cap CpuIds = {cpu_procs[k] : k \in 1..Len(cpu_procs)}
    /\ Cardinality(joined \cap CpuIds) + Cardinality(abandoned \cap CpuIds)
         = cfg.cpu_workers
    /\ \A k \in 1..Len(cpu_procs) : join_calls[cpu_procs[k]] = 1

\* main has finished with one compute handle joined and the other abandoned
C2_Witness ==
  /\ pc = "done"
  /\ cfg.cpu_workers = 2
  /\ CpuId(0) \in joined
  /\ CpuId(1) \in abandoned

\* the work units whose target has reached its loop and has not been cut short
InLoop(w) == st[w] = "loop"

\* C3: with the terminate loop taken out of main, every work unit that has
\* reached its loop goes on to print its 'finished' line by itself, and when it
\* prints it without a fault its clock is no longer before the deadline.
C3_WorkersStopThemselves ==
  /\ \A w \in Workers : InLoop(w) ~> (st[w] = "finished")
  /\ [](\A w \in Workers :
          (st[w] = "finished" /\ faulted[w] = "none") => now >= deadline[w])
  /\ [](\A w \in Workers : term_sent[w] = 0)

\* main is done, no work unit was ever sent a termination request, and a
\* compute worker and an accelerator worker have printed 'finished' after
\* running an iteration
C3_Witness ==
  /\ pc = "done"
  /\ \A w \in Workers : term_sent[w] = 0
  /\ st[CpuId(0)] = "finished" /\ report[CpuId(0)] = 1 /\ ~exc[CpuId(0)]
  /\ st[GpuId(0)] = "finished" /\ report[GpuId(0)] = 1 /\ ~exc[GpuId(0)]

\* the compute work units started with a stop_time that is not ahead of the clock
Late(w) == st[w] # "none" /\ deadline[w] <= started_at[w]

\* C4: a compute work unit started with a stop_time already reached runs its
\* loop body zero times, prints 'finished, iterations: 0' and does not stay in
\* its loop.
C4_PastDeadlineZeroIterations ==
  /\ [](\A w \in CpuIds : Late(w) =>
          /\ iter[w] = 0
          /\ st[w] = "finished" => report[w] = 0)
  /\ \A w \in CpuIds : (Late(w) /\ InLoop(w)) ~> (st[w] = "finished")

\* the second compute worker, started after the deadline, has printed its line
C4_Witness ==
  /\ Late(CpuId(1))
  /\ started_at[CpuId(1)] > deadline[CpuId(1)]
  /\ st[CpuId(1)] = "finished"
  /\ report[CpuId(1)] = 0

\* C5: if the capability check fails, no accelerator worker is ever started,
\* whatever --gpu says, and once spawning is over the compute workers 0..N-1
\* and the monitor have been started.
C5_NoGpuWithoutCapability ==
  ~(cfg.has_torch /\ cfg.cuda_avail) =>
    /\ gpu_procs = <<>>
    /\ \A g \in GpuIds : st[g] = "none"
    /\ pc \in RunningPcs \cup DrainingPcs \cup {"done"} =>
         /\ cpu_procs = [k \in 1..cfg.cpu_workers |-> CpuId(k - 1)]
         /\ \A k \in 1..cfg.cpu_workers : st[CpuId(k - 1)] # "none"
         /\ st[Mon] # "none"

\* --gpu was given, PyTorch is there but no CUDA device is available, and main
\* has spawned its two compute workers
C5_Witness ==
  /\ cfg.gpu_flag /\ cfg.has_torch /\ ~cfg.cuda_avail
  /\ pc = "wait"
  /\ Len(cpu_procs) = 2

\* C6: a fault raised anywhere in a compute work unit (buffers, warm-up or
\* loop) is caught in it: its 'Exception' line is printed and its 'finished'
\* line follows with the count reached before the fault.
C6_FaultCaught ==
  \A w \in CpuIds : faulted[w] # "none" =>
    /\ exc[w]
    /\ report[w] = iter[w]

\* the part of C6 that the loop's try statement does give: a fault in a loop
\* iteration is reported and the count is printed
C6_LoopFaultCaught ==
  \A w \in CpuIds : faulted[w] = "loop" =>
    /\ exc[w]
    /\ report[w] = iter[w]

\* C7: an interrupt during the wait loop takes main straight to the terminate
\* loop; main does not go back to waiting, is not ended by the interrupt, and
\* reaches its final prints as after a deadline.
C7_InterruptDrains ==
  /\ [][(intr_at = "none" /\ intr_at' = "running") =>
          (pc \in RunningPcs /\ pc' = "terminate" /\ idx' = 1 /\ now' = now)]_vars
  /\ [](intr_at = "running" => pc \in DrainingPcs \cup {"done"})
  /\ [](intr_at = "running" /\ pc = "done" =>
          /\ sup_log[Len(sup_log)] = Line("done")
          /\ sup_log[Len(sup_log) - 1] = Line("stopped"))
  /\ (intr_at = "running") ~> (pc = "done")

\* main was interrupted in its wait and is done before the deadline
C7_Witness ==
  /\ intr_at = "running"
  /\ pc = "done"
  /\ now < stop_time
  /\ Started = 2

\* monitor_loop has computed its end_time and has not returned or been killed
MonRunning == st[Mon] \in {"loop", "sleep"}

\* C8: in a run main is not interrupted in, the monitor is not running any more
\* once its duration has passed since it began.
C8_MonitorStopsInTime ==
  (intr_at = "none" /\ MonRunning) => now <= mon_began + cfg.duration

\* C9 as stated: every child that runs compares its clock against main's
\* stop_time.
C9_OneDeadlineForAll ==
  /\ \A w \in Workers : st[w] # "none" => deadline[w] = stop_time
  /\ MonRunning => deadline[Mon] = stop_time

\* C9, amended: stop_time is set once and not changed afterwards, every work
\* unit is given that value, and the monitor's end time is its own start plus
\* the duration, never before stop_time.
C9_WorkersShareDeadline ==
  /\ [][pc # "compute_stop" => stop_time' = stop_time]_vars
  /\ [](\A w \in Workers : st[w] # "none" => deadline[w] = stop_time)
  /\ [](MonRunning =>
          /\ deadline[Mon] = mon_began + cfg.duration
          /\ deadline[Mon] >= stop_time)

\* a compute worker and an accelerator worker run, and the monitor's end
\* time is later than stop_time
C9_Witness ==
  /\ st[CpuId(0)] = "loop"
  /\ st[GpuId(0)] = "loop"
  /\ st[Mon] = "sleep"
  /\ deadline[Mon] > stop_time

\* the lines main has printed about child p
LinesAbout(p) == {k \in 1..Len(sup_log) : sup_log[k][2] = p}

\* C10 as stated: a child whose join timed out has a line about it in main's
\* output.
C10_AbandonedLogged ==
  \A p \in abandoned : LinesAbout(p) # {}

\* C10, amended: a child whose join timed out gets no line in main's output,
\* no further termination request and no further join, and main goes on to
\* its final prints.
C10_AbandonedSilently ==
  /\ [](\A p \in abandoned : LinesAbout(p) = {} /\ term_sent[p] <= 1
                                /\ join_calls[p] = 1)
  /\ [][\A p \in abandoned : /\ term_sent'[p] = term_sent[p]
                              /\ join_calls'[p] = join_calls[p]]_vars
  /\ (abandoned # {}) ~> (pc = "done")

\* main is done and a work unit it abandoned is still alive
C10_Witness ==
  /\ pc = "done"
  /\ \E p \in abandoned \cap Workers : Alive(p)
  /\ Mon \in abandoned

\* the run --duration 0 --cpu-workers 2 without --gpu
C11_Run == cfg.duration = 0 /\ cfg.cpu_workers = 2 /\ ~cfg.gpu_flag

\* C11: in the run duration 0, two compute workers, no accelerator: main starts
\* the monitor and exactly the compute workers 0 and 1 and nothing else; its
\* wait loop never sleeps, so the terminate loop begins at the instant the
\* last stagger ends; no work unit ever runs an iteration, and when main is
\* done each of them has printed 'finished, iterations: 0', was sent a
\* termination request, or died of a fault before its loop; and main reaches
\* its final prints unless it was interrupted while spawning.
C11_ZeroDurationRun ==
  /\ [](C11_Run =>
         /\ Len(cpu_procs) <= cfg.cpu_workers
         /\ gpu_procs = <<>>
         /\ \A g \in GpuIds : st[g] = "none"
         /\ pc # "sleep"
         /\ \A w \in CpuIds : iter[w] = 0 /\ report[w] \in {-1, 0})
  /\ [](C11_Run /\ pc \in RunningPcs \cup DrainingPcs \cup {"done"} =>
         /\ cpu_procs = <<CpuId(0), CpuId(1)>>
         /\ st[Mon] # "none"
         /\ now >= stop_time)
  /\ [](C11_Run /\ pc = "terminate" =>
         now = stop_time + StaggerTicks * cfg.cpu_workers)
  /\ [](C11_Run /\ pc = "done" =>
         \A k \in 1..Len(cpu_procs) :
           \/ (st[cpu_procs[k]] = "finished" /\ report[cpu_procs[k]] = 0)
           \/ term_sent[cpu_procs[k]] = 1
           \/ faulted[cpu_procs[k]] = "setup")
  /\ (C11_Run /\ pc = "start_monitor") ~> (pc = "done" \/ intr_at = "spawning")

\* that run is over: one worker has reported 0 by itself, the other was sent
\* a termination request before it reported
C11_Witness ==
  /\ C11_Run
  /\ pc = "done"
  /\ intr_at = "none"
  /\ st[CpuId(0)] = "finished" /\ report[CpuId(0)] = 0
  /\ term_sent[CpuId(1)] = 1 /\ report[CpuId(1)] = -1

\* the monitor has returned from monitor_loop or was sent SIGTERM
MonOver == st[Mon] \in {"exited", "terminating", "killed"}

\* C12: in the run duration 5 s, one compute worker, monitor interval 2 s, the
\* monitor never prints more than 3 sample lines, and when main was not
\* interrupted it has printed at least 2 of them by the time it returns or is
\* terminated.
C12_MonitorSampleCount ==
  /\ iter[Mon] <= 3
  /\ (intr_at = "none" /\ MonOver) => iter[Mon] \in 2..3

\* main went through that run without an interrupt and terminated the monitor
\* in its last sleep, after its third sample
C12_Witness ==
  /\ cfg = LongRun
  /\ intr_at = "none"
  /\ pc = "done"
  /\ term_sent[Mon] = 1
  /\ iter[Mon] = 3

\* the handles main holds of its work units
Handles == {JoinList[k] : k \in 1..Len(JoinList)}

\* main is past its terminate loop
PastTerminate == pc \in {"join", "join_wait", "mon_join_wait", "final", "done"}

\* main is past its joins of the work units
PastJoins == pc \in {"mon_join_wait", "final", "done"} \/ term_sent[Mon] > 0

\* C13: in main's finally block a termination request goes to a work unit only
\* in the terminate loop, only if it is alive and at most once, and no join is
\* called before that loop is over; after the loop every work unit still alive
\* has been sent one; then every handle is joined exactly once, each join
\* returning within 2 s; the monitor is sent its request and joined only after
\* all those joins, only if alive, and that join returns within 1 s.
C13_DrainOrder ==
  /\ [][\A w \in Workers : term_sent'[w] # term_sent[w] =>
          /\ pc = "terminate" /\ w \in Handles /\ Alive(w)
          /\ term_sent[w] = 0 /\ term_sent'[w] = 1]_vars
  /\ [](~PastTerminate => \A c \in Children : join_calls[c] = 0)
  /\ [](PastTerminate => \A w \in Handles : Alive(w) => term_sent[w] = 1)
  /\ [](\A c \in Children : join_calls[c] <= 1)
  /\ [](PastJoins => \A w \in Handles : /\ join_calls[w] = 1
                                         /\ w \in joined \cup abandoned)
  /\ [][pc' = "join_wait" /\ pc # "join_wait" => wake' = now + JoinTimeout]_vars
  /\ [](pc = "join_wait" => now <= wake)
  /\ [][term_sent'[Mon] # term_sent[Mon] =>
          /\ pc = "join" /\ idx > Len(JoinList) /\ Alive(Mon)
          /\ term_sent'[Mon] = 1 /\ join_calls'[Mon] = 1
          /\ wake' = now + MonJoinTimeout]_vars
  /\ [](join_calls[Mon] = term_sent[Mon])
  /\ [](pc = "mon_join_wait" => now <= wake)

\* main is done: one compute worker had exited before the terminate loop and
\* got no request, the other was alive and got one, both were joined once,
\* and the monitor was terminated after them
C13_Witness ==
  /\ pc = "done"
  /\ st[CpuId(0)] = "finished" /\ term_sent[CpuId(0)] = 0
  /\ term_sent[CpuId(1)] = 1
  /\ join_calls[CpuId(0)] = 1 /\ join_calls[CpuId(1)] = 1
  /\ term_sent[Mon] = 1

\* the work units that have been started
StartedUnits == {w \in Workers : st[w] # "none"}

\* w was started, and v was started at least one stagger delay after it
StartedBefore(w, v) ==
  /\ st[w] # "none"
  /\ started_at[w] + StaggerTicks <= started_at[v]

\* C14: the monitor is started before any work unit; compute worker k is
\* started only after compute workers 0..k-1, each accelerator worker only
\* after every compute worker and after the devices below its own, always a
\* stagger delay after the one before; the wait loop is entered no sooner than
\* a stagger delay after the last start; and at every moment the handle lists
\* hold exactly the work units started so far, in the order of their start.
C14_SpawnOrder ==
  /\ StartedUnits # {} =>
       /\ st[Mon] # "none"
       /\ \A w \in StartedUnits : started_at[Mon] <= started_at[w]
  /\ \A k \in 0..(MaxUnits - 1) : st[CpuId(k)] # "none" =>
       /\ k \in CpuRange
       /\ \A j \in 0..(k - 1) : StartedBefore(CpuId(j), CpuId(k))
  /\ \A g \in 0..(MaxDevices - 1) : st[GpuId(g)] # "none" =>
       /\ g \in GpuRange
       /\ \A j \in CpuRange : StartedBefore(CpuId(j), GpuId(g))
       /\ \A j \in 0..(g - 1) : StartedBefore(GpuId(j), GpuId(g))
  /\ pc \in RunningPcs =>
       \A w \in StartedUnits : started_at[w] + StaggerTicks <= now
  /\ cpu_procs = [k \in 1..Cardinality(StartedUnits \cap CpuIds) |-> CpuId(k - 1)]
  /\ gpu_procs = [k \in 1..Cardinality(StartedUnits \cap GpuIds) |-> GpuId(k - 1)]

\* no compute worker was asked for; device 0's worker was started, and device
\* 1's worker has just been started a stagger delay after it
C14_Witness ==
  /\ pc = "stagger_gpu"
  /\ cpu_procs = <<>>
  /\ gpu_procs = <<GpuId(0), GpuId(1)>>
  /\ started_at[GpuId(1)] = started_at[GpuId(0)] + StaggerTicks

\* a compute worker and then an accelerator worker were started
C14_MixedWitness ==
  /\ pc = "wait"
  /\ cpu_procs = <<CpuId(0)>>
  /\ gpu_procs = <<GpuId(0)>>

\* main is inside a time.sleep or a join that has not returned
SupBlocked == SupWaiting /\ pc \notin {"done", "aborted"}

\* C15 as stated: main blocks nowhere but in its wait loop.
C15_OnlyRunningBlocks == SupBlocked => pc \in RunningPcs

\* C15, amended: every sleep of the wait loop is positive, at most 1 s and at
\* most the time remaining, so it never ends after stop_time; the loop does not
\* sleep again once remaining <= 0; and main's other blocking calls are the
\* stagger sleeps of 0.1 s while spawning and the joins of at most 2 s (work
\* units) and 1 s (monitor) in its finally block.
C15_WaitSleepsBounded ==
  /\ [][pc = "wait" /\ pc' = "sleep" =>
          /\ wake' - now > 0
          /\ wake' - now <= SleepCap
          /\ wake' - now <= stop_time - now]_vars
  /\ [](pc = "sleep" => now <= wake /\ wake <= stop_time)
  /\ [][pc = "wait" /\ stop_time - now <= 0 => pc' # "sleep"]_vars
  /\ [](SupBlocked =>
         /\ pc \in {"stagger_cpu", "stagger_gpu"} => wake - now <= StaggerTicks
         /\ pc = "join_wait" => wake - now <= JoinTimeout
         /\ pc = "mon_join_wait" => wake - now <= MonJoinTimeout)

\* after sleeps of a whole second, main is in a last sleep that is shorter
\* than a second and ends at stop_time
C15_Witness ==
  /\ pc = "sleep"
  /\ wake = stop_time
  /\ wake - now > 0
  /\ wake - now < SleepCap
  /\ now - T0 > SleepCap

\* the count at which w last forced a barrier; 0 is the one after its warm-up
LastBarrier(w) == IF synced[w] = {} THEN 0
                  ELSE CHOOSE n \in synced[w] : \A m \in synced[w] : m <= n

\* C16: an accelerator work unit has forced a barrier after exactly those of
\* its iterations whose count is a positive multiple of 10, so at every check
\* of its loop condition at most 9 iterations have been issued since the last
\* barrier.
C16_BarrierEveryTenth ==
  \A g \in GpuIds :
    /\ synced[g] = {n \in 1..iter[g] : n % 10 = 0}
    /\ iter[g] - LastBarrier(g) <= 9

\* device 0's worker has run 19 iterations and forced one barrier, after the
\* tenth
C16_Witness ==
  /\ st[GpuId(0)] = "loop"
  /\ iter[GpuId(0)] = 19
  /\ synced[GpuId(0)] = {10}

\* ... and it has run 20 iterations and forced its second barrier
C16_SecondBarrier ==
  /\ iter[GpuId(0)] = 20
  /\ synced[GpuId(0)] = {10, 20}

\* --gpu was given and the capability check passes
GpuEnabled == cfg.gpu_flag /\ cfg.has_torch /\ cfg.cuda_avail

\* the accelerator processes that have been started
StartedGpus == {g \in GpuIds : st[g] # "none"}

\* C17: with --gpu given and the capability check passed, there are never more
\* accelerator workers than CUDA devices; the workers started are bound to
\* distinct devices among 0..count-1 and each carries its device index as its
\* worker id; and once spawning is over there is exactly one per device, the
\* k-th handle being the worker of device k.
C17_OneWorkerPerDevice ==
  GpuEnabled =>
    /\ Len(gpu_procs) <= cfg.cuda_count
    /\ StartedGpus = {gpu_procs[k] : k \in 1..Len(gpu_procs)}
    /\ \A g \in StartedGpus :
         /\ gpu_args[g].device_index \in 0..(cfg.cuda_count - 1)
         /\ gpu_args[g].worker_id = gpu_args[g].device_index
    /\ \A g, h \in StartedGpus :
         g # h => gpu_args[g].device_index # gpu_args[h].device_index
    /\ pc \in RunningPcs \cup DrainingPcs \cup {"done"} =>
         /\ Len(gpu_procs) = cfg.cuda_count
         /\ \A k \in 1..Len(gpu_procs) :
              gpu_args[gpu_procs[k]].device_index = k - 1

\* on a machine with two devices main has started both accelerator workers
\* and waits
C17_Witness ==
  /\ GpuEnabled
  /\ cfg.cuda_count = 2
  /\ pc = "wait"
  /\ Len(gpu_procs) = 2
  /\ gpu_args[gpu_procs[2]] = [device_index |-> 1, worker_id |-> 1]

\* the children main has started
StartedChildren == {c \in Children : st[c] # "none"}

\* C18: when an interrupt has ended main while it was spawning, every child it
\* had started was sent a termination request if it was alive, and was joined.
C18_SpawnInterruptDrains ==
  pc = "aborted" =>
    \A c \in StartedChildren : /\ Alive(c) => term_sent[c] = 1
                               /\ join_calls[c] = 1

\* the part of C18 that holds: after an interrupt while spawning main starts
\* no further child
C18_NoFurtherStart ==
  [][intr_at = "spawning" => StartedChildren' = StartedChildren]_vars

\* C19: main sends no termination request while it is spawning or waiting:
\* every request is sent from its finally block, after the wait loop ended
\* because stop_time was reached or an interrupt was caught; so in a run that
\* is not interrupted no work unit is terminated before its deadline.
C19_NoEarlyTerminate ==
  /\ [](pc \in SpawningPcs \cup RunningPcs =>
         \A c \in Children : term_sent[c] = 0)
  /\ [][\A c \in Children : term_sent'[c] # term_sent[c] =>
          /\ pc \in DrainingPcs
          /\ now >= stop_time \/ intr_at = "running"]_vars
  /\ [](intr_at = "none" =>
         \A w \in Workers : term_sent[w] > 0 => now >= deadline[w])

\* in a run that was not interrupted a compute worker that was still in its
\* loop when the wait ended has been sent its termination request, at stop_time
C19_Witness ==
  /\ intr_at = "none"
  /\ cfg.duration > 0
  /\ st[CpuId(0)] = "terminating"
  /\ iter[CpuId(0)] = 1
  /\ now = stop_time

\* the pairs register has accepted
Registered == {reg_log[k] : k \in 1..Len(reg_log)}

\* C20: login.py, from an empty file: no username was registered twice, and
\* login(u, p) prints 'Login successful.' exactly for the pairs an earlier
\* register(u, p) accepted.
C20_LoginIffRegistered ==
  /\ \A j, k \in 1..Len(reg_log) : j # k => reg_log[j][1] # reg_log[k][1]
  /\ \A u \in Names, p \in Passwords :
       LoginResult(login_system, u, p) = "success" <=> <<u, p>> \in Registered

\* the parts of C20 that hold: login never changes the file, and a register
\* that finds the username leaves the file as it is
C20_LoginReadsOnly ==
  [][/\ login_out' \in {"success", "invalid", "no_users", "exists"}
         => login_system' = login_system
     /\ login_system' # login_system
         => login_out' = "registered" /\ Len(reg_log') = Len(reg_log) + 1]_vars

\* a string without separator or blank
Plain(s) == \A i \in 1..Len(s) : s[i] = "a"

\* ... and C20 holds as long as no username or password registered holds a
\* '-', a ':' or a blank
C20_PlainNamesConsistent ==
  (\A e \in Registered : Plain(e[1]) /\ Plain(e[2])) => C20_LoginIffRegistered

\* C21: the Library of ram.py keeps library.txt in step with its list: a new
\* Library loaded from the file holds the same sequence of books (kind,
\* title, author, ISBN, file size) as the Library that wrote it.  The code
\* writes the fields as typed, joined by commas, and reads a line back with
\* strip and split: a comma inside a field moves the fields after it, and a
\* blank at the end of the last field is lost.
C21_ReloadSameBooks == LoadBooks(library_file) = books

\* C21, the part that holds: right after add_book or a remove_book that
\* found its book, the file is the lines of the list, in order.
C21_FileHoldsSavedList ==
  lib_out \in {"added", "removed"} => library_file = SaveBooks(books)

\* C21, the part that holds: remove_book takes out the first book with the
\* ISBN and no other, and leaves list and file alone when none has it.
C21_RemoveFirstOnly ==
  [][/\ lib_out' = "not_found" =>
          /\ books' = books
          /\ library_file' = library_file
     /\ lib_out' = "removed" =>
          \E k \in 1..Len(books) :
            /\ books' = RemoveAt(books, k)
            /\ \A j \in 1..(k - 1) : books[j].isbn # books[k].isbn]_vars

\* a field with no comma and no blank
PlainField(f) == \A k \in 1..Len(f) : f[k] \notin {",", " "}
PlainBook(b) ==
  /\ PlainField(b.title)
  /\ PlainField(b.author)
  /\ PlainField(b.isbn)
  /\ b.kind = "ebook" => PlainField(b.file_size)

\* C21, the part that holds: a list of books whose fields hold neither a
\* comma nor a blank is read back as it was written.
C21_PlainBooksReload ==
  (/\ lib_out \in {"added", "removed"}
   /\ \A k \in 1..Len(books) : PlainBook(books[k]))
    => LoadBooks(library_file) = books

====
